---- MODULE Spec2Model ----
(***************************************************************************)
(* Model of server/lib/actions/actions/report.js: the report action        *)
(* doReport, the Reporter browser session and the Authenticator            *)
(* strategies.  Every `await` of the source is a step boundary: a run      *)
(* executes the synchronous code up to its next await in one action, and   *)
(* the completion of the awaited call (success or failure, chosen by the   *)
(* environment) is the next action of that run.  Several runs interleave   *)
(* at these boundaries, as on the single-threaded event loop.              *)
(***************************************************************************)
EXTENDS Integers, Sequences, FiniteSets, TLC

\* ------------------------------------------------------------------ bounds

\* total number of doReport calls made by the host
MaxRuns == 2

\* longest captured file, in bytes, that createReportAttachment is applied to
MaxFileLen == 4

\* the doReport calls that may be in flight at the same time: a slot is
\* taken by a call and free again once the call has settled.  Two calls in
\* flight are what it takes for one run to interfere with another.
Slots == {1, 2}

\* ------------------------------------------------------- values and inputs

\* a JavaScript string is held as a sequence of one-character strings where
\* the code takes it apart (the "WxH" resolution), and as a TLA+ string
\* where the code only passes it on
Res800x600 == <<"8", "0", "0", "x", "6", "0", "0">>
Res1024x768 == <<"1", "0", "2", "4", "x", "7", "6", "8">>
\* the value of a missing array element or object property
Undefined == <<"undefined">>
NaN == -1

Digits == {"0", "1", "2", "3", "4", "5", "6", "7", "8", "9"}

DigitVal(c) ==
  CASE c = "0" -> 0 [] c = "1" -> 1 [] c = "2" -> 2 [] c = "3" -> 3
    [] c = "4" -> 4 [] c = "5" -> 5 [] c = "6" -> 6 [] c = "7" -> 7
    [] c = "8" -> 8 [] c = "9" -> 9

\* String.prototype.split(sep) for a one-character separator
RECURSIVE SplitAcc(_, _, _, _)
SplitAcc(s, sep, cur, acc) ==
  IF s = <<>> THEN Append(acc, cur)
  ELSE IF Head(s) = sep THEN SplitAcc(Tail(s), sep, <<>>, Append(acc, cur))
  ELSE SplitAcc(Tail(s), sep, Append(cur, Head(s)), acc)

Split(s, sep) == SplitAcc(s, sep, <<>>, <<>>)

\* array[i] of JavaScript (0-based): undefined past the end
At(arr, i) == IF i + 1 <= Len(arr) THEN arr[i + 1] ELSE Undefined

\* unary plus: the number a string of digits denotes, 0 for the empty
\* string, NaN for undefined and for anything that is not a number
RECURSIVE DigitsToNat(_, _)
DigitsToNat(s, acc) ==
  IF s = <<>> THEN acc ELSE DigitsToNat(Tail(s), acc * 10 + DigitVal(Head(s)))

ToNumber(s) ==
  IF s = Undefined THEN NaN
  ELSE IF \A i \in 1..Len(s) : s[i] \in Digits THEN DigitsToNat(s, 0)
  ELSE NaN

\* the per-action overrides of action.snapshot.params and action.snapshot.res;
\* a delay of 0 and a selector "" are the falsy values of an omitted override
ParamsFull ==
  [username |-> "u1", password |-> "p1", delay |-> 1000,
   username_input_selector |-> "#login-user",
   password_input_selector |-> "#login-pass",
   login_btn_selector |-> "#login-go"]

ParamsPartial ==
  [username |-> "u2", password |-> "p2", delay |-> 0,
   username_input_selector |-> "",
   password_input_selector |-> "",
   login_btn_selector |-> "#submit"]

\* an action object; shape names the part of it that is missing ("ok": none)
Action(shape, url, type, stateless, params, res, title, actionName) ==
  [shape |-> shape, url |-> url, type |-> type, stateless |-> stateless,
   params |-> params, res |-> res, title |-> title, actionName |-> actionName,
   name |-> "nightly"]

\* the actions the host may pass to doReport.  The well-formed ones form an
\* orthogonal array over snapshot type, stateless and the overrides: every
\* pair of values of two of them occurs.  One more has an empty url, and
\* three lack snapshot, snapshot.params or snapshot.res.
ActionSet ==
  { Action("ok", "http://x", "png", FALSE, ParamsFull, Res800x600, "watcherA", "reportA"),
    Action("ok", "http://x", "png", TRUE, ParamsPartial, Res1024x768, "watcherB", "reportB"),
    Action("ok", "http://x", "pdf", FALSE, ParamsPartial, Res1024x768, "watcherB", "reportB"),
    Action("ok", "http://x", "pdf", TRUE, ParamsFull, Res800x600, "watcherA", "reportA"),
    Action("ok", "", "png", FALSE, ParamsPartial, Res1024x768, "watcherB", "reportB") }
  \cup
  { Action(sh, "http://x", "png", FALSE, ParamsFull, Res800x600, "watcherA", "reportA") :
      sh \in {"noSnapshot", "noParams", "noRes"} }

\* the bytes a capture of the given type may produce
FileSet(type) == IF type = "pdf" THEN { <<37, 80, 68, 70>> } ELSE { <<137, 80, 78>> }

\* what a rejected history write throws: an object or a plain string
ErrorSet == { [isObject |-> TRUE, text |-> "es"],
              [isObject |-> FALSE, text |-> "timeout"] }

\* isObject(err) ? JSON.stringify(err) : err
SerializeError(err) ==
  IF err.isObject THEN "{\"message\":\"" \o err.text \o "\"}" ELSE err.text

\* ------------------------------------------------------------------ state

VARIABLES
  config,    \* the report settings object getConfiguration hands out
  started,   \* number of doReport calls made so far
  pc,        \* per slot: the await the run is suspended at, "idle" or "done"
  action,    \* per slot: the action object of the run
  local,     \* per slot: locals of doReport and fields of its Reporter
  events,    \* per slot: calls to and returns from browser, mail and store
  logs,      \* per slot: what the run logged
  outcome    \* per slot: "pending", "resolved" or "rejected", and the value

vars == <<config, started, pc, action, local, events, logs, outcome>>

DefaultTimeout == 5000

ModeSet ==
  { [searchguard |-> TRUE, xpack |-> FALSE, custom |-> FALSE, basic |-> FALSE],
    [searchguard |-> FALSE, xpack |-> TRUE, custom |-> FALSE, basic |-> FALSE],
    [searchguard |-> FALSE, xpack |-> FALSE, custom |-> TRUE, basic |-> FALSE],
    [searchguard |-> FALSE, xpack |-> FALSE, custom |-> FALSE, basic |-> TRUE] }

\* authentication.enabled with authentication.mode: each mode enabled, and
\* authentication disabled with a mode flag left set
AuthSet ==
  { <<TRUE, m>> : m \in ModeSet } \cup
  { <<FALSE, m>> : m \in { x \in ModeSet : x.basic } }

DefaultCustom ==
  [username_input_selector |-> "#user",
   password_input_selector |-> "#pass",
   login_btn_selector |-> ".btn-lg"]

DefaultScreenshot == [width |-> <<"1", "2", "8", "0">>, height |-> <<"9", "0", "0">>]

\* the process-wide report settings as loaded at startup
BaseConfig(active, enabled, mode) ==
  [active |-> active,
   timeout |-> DefaultTimeout,
   executable_path |-> "/usr/bin/chromium",
   authentication |->
     [enabled |-> enabled, mode |-> mode,
      username |-> "admin", password |-> "secret",
      custom |-> DefaultCustom],
   file |->
     [screenshot |-> DefaultScreenshot,
      pdf |-> [format |-> "A4", landscape |-> TRUE]]]

NoAction == CHOOSE a \in ActionSet : TRUE
NoFile == <<>>
NoError == [isObject |-> FALSE, text |-> ""]

InitLocal ==
  [filename |-> "", script |-> <<>>, file |-> NoFile, err |-> NoError]

Init ==
  /\ \E active \in BOOLEAN, auth \in AuthSet :
       config = BaseConfig(active, auth[1], auth[2])
  /\ started = 0
  /\ pc = [r \in Slots |-> "idle"]
  /\ action = [r \in Slots |-> NoAction]
  /\ local = [r \in Slots |-> InitLocal]
  /\ events = [r \in Slots |-> <<>>]
  /\ logs = [r \in Slots |-> <<>>]
  /\ outcome = [r \in Slots |-> [state |-> "pending", value |-> "undefined"]]


\* ------------------------------------------------------- pure helpers

\* a call to a collaborator (browser, page, mail client, history store) with
\* its arguments; st is "pending" until the awaited call settles, then "ok"
\* or "failed"
Call(op, arg) == [op |-> op, st |-> "pending", arg |-> arg]

\* getConfiguration(server).settings.report: the process-wide settings
\* object itself, not a copy
getConfiguration == config

\* mutant: the feature flag is not looked at
ReportsDisabledIgnored(cfg) == FALSE

\* if (!config.active) throw
ReportsDisabled(cfg) == ~cfg.active

\* config.authentication.username = ...; config.authentication.password = ...
OverlayCredentials(cfg, a) ==
  [cfg EXCEPT !.authentication.username = a.params.username,
              !.authentication.password = a.params.password]

\* config.file.screenshot.width/height = action.snapshot.res.split('x')[0/1]
OverlayResolution(cfg, a) ==
  [cfg EXCEPT !.file.screenshot.width = At(Split(a.res, "x"), 0),
              !.file.screenshot.height = At(Split(a.res, "x"), 1)]

\* config.timeout = action.snapshot.params.delay || config.timeout
OverlayTimeout(cfg, a) ==
  [cfg EXCEPT !.timeout = IF a.params.delay # 0 THEN a.params.delay ELSE @]

\* x || y on selector strings
OrElse(x, y) == IF x # "" THEN x ELSE y

\* mutant: the custom selectors are taken from the action with no fallback
OverlayCustomNoFallback(cfg, a) ==
  IF cfg.authentication.mode.custom
  THEN [cfg EXCEPT !.authentication.custom =
         [username_input_selector |-> a.params.username_input_selector,
          password_input_selector |-> a.params.password_input_selector,
          login_btn_selector |-> a.params.login_btn_selector]]
  ELSE cfg

\* if (config.authentication.mode.custom) config.authentication.custom = {...}
OverlayCustom(cfg, a) ==
  IF cfg.authentication.mode.custom
  THEN [cfg EXCEPT !.authentication.custom =
         [username_input_selector |->
            OrElse(a.params.username_input_selector, @.username_input_selector),
          password_input_selector |->
            OrElse(a.params.password_input_selector, @.password_input_selector),
          login_btn_selector |->
            OrElse(a.params.login_btn_selector, @.login_btn_selector)]]
  ELSE cfg

Overlay(cfg, a) ==
  OverlayCustom(OverlayTimeout(OverlayResolution(OverlayCredentials(cfg, a), a), a), a)

\* mutant: the submit control does not depend on the backend variant
KibanaScriptOneButton(user, pass, appName, timeout) ==
  << Call("type", <<"#username", user, timeout \div 50>>),
     Call("type", <<"#password", pass, timeout \div 50>>),
     Call("click", <<".btn-login">>),
     Call("delay", <<timeout>>),
     Call("click", <<".global-nav-link--close">>),
     Call("delay", <<timeout \div 5>>) >>

\* Authenticator.kibana: the awaited calls of its try block, in order
KibanaScript(user, pass, appName, timeout) ==
  << Call("type", <<"#username", user, timeout \div 50>>),
     Call("type", <<"#password", pass, timeout \div 50>>),
     Call("click", << IF appName = "xpack" THEN ".kuiButton" ELSE ".btn-login" >>),
     Call("delay", <<timeout>>),
     Call("click", <<".global-nav-link--close">>),
     Call("delay", <<timeout \div 5>>) >>

\* Authenticator.custom: the awaited calls of its try block, in order
CustomScript(user, pass, userSelector, passSelector, loginBtnSelector, timeout) ==
  << Call("type", <<userSelector, user, timeout \div 50>>),
     Call("type", <<passSelector, pass, timeout \div 50>>),
     Call("click", <<loginBtnSelector>>),
     Call("delay", <<timeout>>) >>

\* Reporter.authenticate: the strategies whose mode flag is set, in the order
\* of its three if statements, each with the awaited calls it makes
RECURSIVE Concat(_)
Concat(ss) == IF ss = <<>> THEN <<>> ELSE Head(ss) \o Concat(Tail(ss))

authenticate(mode, user, pass, timeout) ==
  Concat(<<
    IF mode.searchguard THEN KibanaScript(user, pass, "searchguard", timeout) ELSE <<>>,
    IF mode.xpack THEN KibanaScript(user, pass, "xpack", timeout) ELSE <<>>,
    IF mode.custom
      THEN CustomScript(user, pass, "#user", "#pass", ".btn-lg", timeout) ELSE <<>> >>)

\* the base64 alphabet: sextet value + 1 -> character
Base64Alphabet ==
  <<
     "A", "B", "C", "D", "E", "F", "G", "H", "I", "J", "K", "L", "M", "N", "O", "P",
     "Q", "R", "S", "T", "U", "V", "W", "X", "Y", "Z", "a", "b", "c", "d", "e", "f",
     "g", "h", "i", "j", "k", "l", "m", "n", "o", "p", "q", "r", "s", "t", "u", "v",
     "w", "x", "y", "z", "0", "1", "2", "3", "4", "5", "6", "7", "8", "9", "+", "/" >>

Base64Char(sextet) == Base64Alphabet[sextet + 1]

\* Buffer.prototype.toString('base64'): each group of three bytes becomes
\* four characters, a last group of one or two bytes is padded with "="
RECURSIVE Base64(_)
Base64(bytes) ==
  IF Len(bytes) = 0 THEN <<>>
  ELSE IF Len(bytes) = 1 THEN
    << Base64Char(bytes[1] \div 4), Base64Char((bytes[1] % 4) * 16), "=", "=" >>
  ELSE IF Len(bytes) = 2 THEN
    << Base64Char(bytes[1] \div 4),
       Base64Char((bytes[1] % 4) * 16 + bytes[2] \div 16),
       Base64Char((bytes[2] % 16) * 4), "=" >>
  ELSE
    << Base64Char(bytes[1] \div 4),
       Base64Char((bytes[1] % 4) * 16 + bytes[2] \div 16),
       Base64Char((bytes[2] % 16) * 4 + bytes[3] \div 64),
       Base64Char(bytes[3] % 64) >>
    \o Base64(SubSeq(bytes, 4, Len(bytes)))

\* mutant: the pdf branch is missing, every report is attached as an image
createReportAttachmentAlwaysImage(filename, file, type) ==
  << [data |-> "<html><img src='cid:my-report' width='100%'></html>",
      alternative |-> TRUE],
     [data |-> Base64(file), type |-> "image/" \o type,
      name |-> filename, encoded |-> TRUE, contentId |-> "<my-report>"] >>

\* createReportAttachment(filename, file, type)
createReportAttachment(filename, file, type) ==
  << [data |-> IF type = "pdf"
                 THEN "<html><p>Find PDF report in the attachment.</p></html>"
                 ELSE "<html><img src='cid:my-report' width='100%'></html>",
      alternative |-> TRUE],
     [data |-> Base64(file),
      type |-> IF type = "pdf" THEN "application/pdf" ELSE "image/" \o type,
      name |-> filename, encoded |-> TRUE, contentId |-> "<my-report>"] >>

\* createReportFileName with a name given: filename + '.' + type
createReportFileName(filename, type) == filename \o "." \o type

\* the record of the primary history write
PrimaryRecord(a, attachment) ==
  [title |-> a.title, actionType |-> a.actionName, level |-> "INFO",
   report |-> TRUE, message |-> "text", object |-> attachment]

\* mutant: the fallback record carries the error unserialized
FallbackRecordRawError(a, err) ==
  [title |-> a.title, actionType |-> a.actionName, level |-> "",
   report |-> FALSE, message |-> err.text, object |-> <<>>]

\* the record of the fallback history write
FallbackRecord(a, err) ==
  [title |-> a.title, actionType |-> a.actionName, level |-> "",
   report |-> FALSE, message |-> SerializeError(err), object |-> <<>>]

\* mutant: the primary write is made for every action, stateless or not
ShouldPersistAlways(a) == TRUE

\* mutant: the primary write is skipped for every action
ShouldPersistNever(a) == FALSE

\* if (!action.stateless) around the primary write
ShouldPersist(a) == ~a.stateless

\* if (!action.stateless) in the catch of the primary write
ShouldFallback(a) == ~a.stateless

\* mutant: Reporter.end swallows the failure of browser.close()
EndSwallows(ok) == FALSE

\* if (this.config.authentication.enabled && this.config.authentication.mode.basic)
BasicAuthConfigured(cfg) == cfg.authentication.enabled /\ cfg.authentication.mode.basic

\* mutant: the login branch of openPage is taken whatever enabled says
AuthenticationEnabledAlways(cfg) == TRUE

\* if (this.config.authentication.enabled) after the navigation
AuthenticationEnabled(cfg) == cfg.authentication.enabled

\* Reporter.end: a failing browser.close() is rethrown
EndThrows(ok) == ~ok

\* mutant: email.send is not awaited, its rejection goes unnoticed
SendIgnored(ok) == FALSE

\* await email.send(...): a rejected send throws
SendThrows(ok) == ~ok


\* ------------------------------------------------------------ transitions

\* the pending call of run r settles, and the run makes the calls es
Emit(r, ok, es) ==
  events' = [events EXCEPT ![r] =
    [@ EXCEPT ![Len(@)].st = IF ok THEN "ok" ELSE "failed"] \o es]

\* the async function returns or throws
Settle(r, state, value) ==
  /\ pc' = [pc EXCEPT ![r] = "done"]
  /\ outcome' = [outcome EXCEPT ![r] = [state |-> state, value |-> value]]

\* catch (err) { log.error(err) } of doReport: the call resolves with no value
Catch(r, msg) ==
  /\ Settle(r, "resolved", "undefined")
  /\ logs' = [logs EXCEPT ![r] = Append(@, [level |-> "error", msg |-> msg])]

\* a throw before the try block of doReport: the call rejects
Throw(r, msg, logged) ==
  /\ Settle(r, "rejected", msg)
  /\ logs' = [logs EXCEPT ![r] = logged]

Free(r) == pc[r] \in {"idle", "done"}

\* mutant: the missing url goes unreported
NoUrlLogSilent(a) == <<>>

\* if (!action.snapshot.url.length) log.info(...): what the check logs
NoUrlLog(a) ==
  IF a.shape # "noSnapshot" /\ a.url = ""
    THEN << [level |-> "info", msg |-> "Report Disabled: No URL Settings!"] >>
    ELSE <<>>

\* doReport is called: lines 181-230, up to the await of puppeteer.launch
Begin(r, a) ==
  /\ started < MaxRuns
  /\ Free(r)
  /\ \A q \in Slots : q < r => ~Free(q)
  /\ started' = started + 1
  /\ action' = [action EXCEPT ![r] = a]
  /\ LET cfg == getConfiguration
         noUrl == NoUrlLog(a)
     IN  IF ReportsDisabled(cfg) THEN
           /\ Throw(r, "Reports Disabled: Action requires Email Settings!", <<>>)
           /\ events' = [events EXCEPT ![r] = <<>>]
           /\ local' = [local EXCEPT ![r] = InitLocal]
           /\ UNCHANGED config
         ELSE IF a.shape \in {"noSnapshot", "noParams"} THEN
           /\ Throw(r, "TypeError", noUrl)
           /\ events' = [events EXCEPT ![r] = <<>>]
           /\ local' = [local EXCEPT ![r] = InitLocal]
           /\ UNCHANGED config
         ELSE IF a.shape = "noRes" THEN
           /\ Throw(r, "TypeError", noUrl)
           /\ events' = [events EXCEPT ![r] = <<>>]
           /\ local' = [local EXCEPT ![r] = InitLocal]
           /\ config' = OverlayCredentials(cfg, a)
         ELSE
           /\ config' = Overlay(cfg, a)
           /\ local' = [local EXCEPT ![r] =
                [InitLocal EXCEPT !.filename = createReportFileName(a.name, a.type)]]
           /\ events' = [events EXCEPT ![r] = << Call("launch", <<cfg.executable_path>>) >>]
           /\ logs' = [logs EXCEPT ![r] = noUrl]
           /\ pc' = [pc EXCEPT ![r] = "launch"]
           /\ outcome' = [outcome EXCEPT ![r] = [state |-> "pending", value |-> "undefined"]]

\* puppeteer.launch settles (lines 67-76)
LaunchDone(r, ok) ==
  /\ pc[r] = "launch"
  /\ IF ok THEN
       /\ Emit(r, TRUE, << Call("newPage", <<>>) >>)
       /\ pc' = [pc EXCEPT ![r] = "newPage"]
       /\ UNCHANGED <<logs, outcome>>
     ELSE
       /\ Emit(r, FALSE, <<>>)
       /\ Catch(r, "fail to open headless chrome")
  /\ UNCHANGED <<config, started, action, local>>

\* browser.newPage settles (lines 73-83): on success the basic-auth branch,
\* then the call of page.goto
NewPageDone(r, ok) ==
  /\ pc[r] = "newPage"
  /\ IF ~ok THEN
       /\ Emit(r, FALSE, <<>>)
       /\ Catch(r, "fail to open headless chrome")
     ELSE IF BasicAuthConfigured(config) THEN
       \* this.authentication is undefined: reading .username throws a
       \* TypeError before Authenticator.basic is entered
       /\ Emit(r, TRUE, <<>>)
       /\ Catch(r, "TypeError")
     ELSE
       /\ Emit(r, TRUE, << Call("goto", <<action[r].url>>) >>)
       /\ pc' = [pc EXCEPT ![r] = "goto"]
       /\ UNCHANGED <<logs, outcome>>
  /\ UNCHANGED <<config, started, action, local>>

\* mutant: the capture is left out and the session is closed at once
StartCaptureSkipped(r) ==
  /\ Emit(r, TRUE, << Call("close", <<>>) >>)
  /\ pc' = [pc EXCEPT ![r] = "close"]

\* the synchronous start of the capture (lines 232-237, 110-113, 120-123)
StartCapture(r) ==
  IF action[r].type # "pdf" THEN
    /\ Emit(r, TRUE, << Call("setViewport",
                  <<ToNumber(config.file.screenshot.width),
                    ToNumber(config.file.screenshot.height)>>) >>)
    /\ pc' = [pc EXCEPT ![r] = "setViewport"]
  ELSE
    /\ Emit(r, TRUE, << Call("pdf",
                  <<config.file.pdf.format, config.file.pdf.landscape>>) >>)
    /\ pc' = [pc EXCEPT ![r] = "pdf"]

\* issue the next awaited call of the login script, or go on to the capture
\* when openPage has nothing left to await
Continue(r, script) ==
  IF script = <<>> THEN
    /\ StartCapture(r)
    /\ local' = [local EXCEPT ![r].script = <<>>]
  ELSE
    /\ Emit(r, TRUE, << Head(script) >>)
    /\ pc' = [pc EXCEPT ![r] = "auth"]
    /\ local' = [local EXCEPT ![r].script = Tail(script)]

\* page.goto settles (lines 82-93)
GotoDone(r, ok) ==
  /\ pc[r] = "goto"
  /\ IF ~ok THEN
       /\ Emit(r, FALSE, <<>>)
       /\ Catch(r, "fail to go to url")
       /\ UNCHANGED local
     ELSE IF AuthenticationEnabled(config) THEN
       /\ Continue(r, authenticate(config.authentication.mode,
                                config.authentication.username,
                                config.authentication.password,
                                config.timeout))
       /\ UNCHANGED <<logs, outcome>>
     ELSE
       /\ Emit(r, TRUE, << Call("delay", <<config.timeout>>) >>)
       /\ pc' = [pc EXCEPT ![r] = "settle"]
       /\ UNCHANGED <<logs, outcome, local>>
  /\ UNCHANGED <<config, started, action>>

\* the delay of the disabled-auth branch elapses; openPage returns
SettleDone(r) ==
  /\ pc[r] = "settle"
  /\ StartCapture(r)
  /\ UNCHANGED <<config, started, action, local, logs, outcome>>

\* an awaited call of Authenticator.kibana or .custom settles; a delay
\* cannot fail, a page interaction can
AuthStepDone(r, ok) ==
  /\ pc[r] = "auth"
  /\ LET cur == events[r][Len(events[r])] IN
     /\ cur.op = "delay" => ok
     /\ IF ~ok THEN
          /\ Emit(r, FALSE, <<>>)
          /\ Catch(r, IF config.authentication.mode.custom
                         THEN "fail to authenticate via custom auth"
                         ELSE "fail to authenticate via Search Guard")
          /\ UNCHANGED local
        ELSE
          /\ Continue(r, local[r].script)
          /\ UNCHANGED <<logs, outcome>>
  /\ UNCHANGED <<config, started, action>>

\* page.setViewport settles (lines 113-117)
SetViewportDone(r, ok) ==
  /\ pc[r] = "setViewport"
  /\ IF ok THEN
       /\ Emit(r, TRUE, << Call("screenshot", <<action[r].type>>) >>)
       /\ pc' = [pc EXCEPT ![r] = "screenshot"]
       /\ UNCHANGED <<logs, outcome>>
     ELSE
       /\ Emit(r, FALSE, <<>>)
       /\ Catch(r, "fail to do a screenshot")
  /\ UNCHANGED <<config, started, action, local>>

\* page.screenshot or page.pdf settles (lines 114, 123, 239): on success the
\* file is kept and report.end() is called
CaptureDone(r, ok) ==
  /\ pc[r] \in {"screenshot", "pdf"}
  /\ IF ok THEN
       /\ Emit(r, TRUE, << Call("close", <<>>) >>)
       /\ \E bytes \in FileSet(action[r].type) :
            local' = [local EXCEPT ![r].file = bytes]
       /\ pc' = [pc EXCEPT ![r] = "close"]
       /\ UNCHANGED <<logs, outcome>>
     ELSE
       /\ Emit(r, FALSE, <<>>)
       /\ Catch(r, IF pc[r] = "pdf" THEN "fail to do a PDF doc"
                                    ELSE "fail to do a screenshot")
       /\ UNCHANGED local
  /\ UNCHANGED <<config, started, action>>

\* browser.close settles (lines 129-135, 241-249)
CloseDone(r, ok) ==
  /\ pc[r] = "close"
  /\ IF EndThrows(ok) THEN
       /\ Emit(r, ok, <<>>)
       /\ Catch(r, "fail to close headless chrome")
     ELSE
       /\ Emit(r, ok, << Call("send", createReportAttachment(
                        local[r].filename, local[r].file, action[r].type)) >>)
       /\ pc' = [pc EXCEPT ![r] = "send"]
       /\ UNCHANGED <<logs, outcome>>
  /\ UNCHANGED <<config, started, action, local>>

\* email.send settles (lines 243-262, 277-278)
SendDone(r, ok) ==
  /\ pc[r] = "send"
  /\ IF SendThrows(ok) THEN
       /\ Emit(r, ok, <<>>)
       /\ Catch(r, "mail error")
     ELSE IF ShouldPersist(action[r]) THEN
       /\ Emit(r, ok, << Call("primary", << PrimaryRecord(action[r],
                        createReportAttachment(
                          local[r].filename, local[r].file, action[r].type)) >>) >>)
       /\ pc' = [pc EXCEPT ![r] = "primary"]
       /\ UNCHANGED <<logs, outcome>>
     ELSE
       /\ Emit(r, ok, <<>>)
       /\ Settle(r, "resolved", "stateless report does not save data to Elasticsearch")
       /\ UNCHANGED logs
  /\ UNCHANGED <<config, started, action, local>>

\* the primary logHistory settles (lines 253-274)
PrimaryDone(r, ok, err) ==
  /\ pc[r] = "primary"
  /\ IF ok THEN
       /\ Emit(r, TRUE, <<>>)
       /\ Settle(r, "resolved", "history id")
       /\ UNCHANGED <<logs, local>>
     ELSE IF ShouldFallback(action[r]) THEN
       /\ Emit(r, FALSE, << Call("fallback", << FallbackRecord(action[r], err) >>) >>)
       /\ local' = [local EXCEPT ![r].err = err]
       /\ pc' = [pc EXCEPT ![r] = "fallback"]
       /\ UNCHANGED <<logs, outcome>>
     ELSE
       /\ Emit(r, FALSE, <<>>)
       /\ local' = [local EXCEPT ![r].err = err]
       /\ Catch(r, "fail to save report in Elasticsearch")
  /\ UNCHANGED <<config, started, action>>

\* the fallback logHistory settles (lines 265-270, 279-281)
FallbackDone(r, ok) ==
  /\ pc[r] = "fallback"
  /\ Emit(r, ok, <<>>)
  /\ IF ok THEN
       /\ Settle(r, "resolved", "history id")
       /\ UNCHANGED logs
     ELSE
       /\ Catch(r, "history error")
  /\ UNCHANGED <<config, started, action, local>>

Next ==
  \E r \in Slots :
    \/ \E a \in ActionSet : Begin(r, a)
    \/ \E ok \in BOOLEAN : LaunchDone(r, ok)
    \/ \E ok \in BOOLEAN : NewPageDone(r, ok)
    \/ \E ok \in BOOLEAN : GotoDone(r, ok)
    \/ SettleDone(r)
    \/ \E ok \in BOOLEAN : AuthStepDone(r, ok)
    \/ \E ok \in BOOLEAN : SetViewportDone(r, ok)
    \/ \E ok \in BOOLEAN : CaptureDone(r, ok)
    \/ \E ok \in BOOLEAN : CloseDone(r, ok)
    \/ \E ok \in BOOLEAN : SendDone(r, ok)
    \/ \E ok \in BOOLEAN, err \in ErrorSet : PrimaryDone(r, ok, err)
    \/ \E ok \in BOOLEAN : FallbackDone(r, ok)

Spec == Init /\ [][Next]_vars


\* ------------------------------------------------------------ properties

\* positions of the calls of run r to the collaborator operation op
Calls(r, op) == { i \in DOMAIN events[r] : events[r][i].op = op }
Never(r, op) == \A i \in DOMAIN events[r] : events[r][i].op # op
AtMostOnce(r, op) ==
  \A i \in DOMAIN events[r] :
    events[r][i].op = op =>
      \A j \in DOMAIN events[r] : events[r][j].op = op => i = j
Once(r, op) == ~Never(r, op) /\ AtMostOnce(r, op)
Failed(r, op) ==
  \E i \in DOMAIN events[r] : events[r][i].op = op /\ events[r][i].st = "failed"
Succeeded(r, op) ==
  \E i \in DOMAIN events[r] : events[r][i].op = op /\ events[r][i].st = "ok"
NoWrite(r) == Never(r, "primary") /\ Never(r, "fallback")
Returned(r) == pc[r] = "done"

\* the settings object as loaded at startup: active, authentication.enabled
\* and authentication.mode are written by no run
StartupConfig ==
  BaseConfig(config.active, config.authentication.enabled, config.authentication.mode)

\* the calls of a browser session
SessionOps ==
  {"launch", "newPage", "goto", "type", "click", "setViewport", "screenshot", "pdf", "close"}

\* C1: in every run that launched a browser, close is attempted exactly once
\* by the time the run has returned, whichever step failed.
C1_CloseExactlyOnce ==
  \A r \in Slots :
    Returned(r) /\ Succeeded(r, "launch") => Once(r, "close")

\* C2 (as stated): every run of a non-stateless action has, by the time it
\* returns, attempted exactly one history write, primary or fallback.  Stated
\* here for the runs that entered the try block (the call resolved).
C2_ExactlyOneWrite ==
  \A r \in Slots :
    Returned(r) /\ outcome[r].state = "resolved" /\ ~action[r].stateless =>
      \/ Once(r, "primary") /\ Never(r, "fallback")
      \/ Never(r, "primary") /\ Once(r, "fallback")

\* C2 (amended): a run of a non-stateless action whose mail send succeeded
\* attempts the primary write exactly once, and the fallback write exactly
\* once if the primary write failed and not at all otherwise; a run whose
\* mail send did not succeed attempts no history write.
C2_WritesFollowMail ==
  \A r \in Slots :
    /\ ~Succeeded(r, "send") => NoWrite(r)
    /\ Succeeded(r, "send") /\ ~action[r].stateless =>
         /\ Once(r, "primary")
         /\ IF Failed(r, "primary") THEN Once(r, "fallback") ELSE Never(r, "fallback")

C2_Witness ==
  \E r \in Slots :
    /\ Returned(r) /\ ~action[r].stateless
    /\ Failed(r, "primary") /\ Once(r, "fallback")

\* C3: no call of doReport rejects.
C3_NeverRejects ==
  \A r \in Slots : outcome[r].state # "rejected"

\* C4: with config.active off, a call aborts (rejects) without having called
\* the browser, the mail client or the history store, and the settings
\* object is as loaded at startup.
C4_DisabledNoSideEffects ==
  ~config.active =>
    /\ config = StartupConfig
    /\ \A r \in Slots :
         /\ events[r] = <<>>
         /\ Returned(r) => outcome[r].state = "rejected"

C4_Witness ==
  /\ ~config.active
  /\ \E r \in Slots : Returned(r) /\ outcome[r].state = "rejected"

SessionFailed(r) ==
  \/ \E op \in SessionOps : Failed(r, op)
  \/ /\ Returned(r) /\ Succeeded(r, "newPage") /\ Never(r, "goto")

\* C7: once a browser-session step has failed the run has returned with no
\* value, and it has sent no mail and attempted no history write.
C7_SessionFailureAborts ==
  \A r \in Slots :
    SessionFailed(r) =>
      /\ Returned(r) /\ outcome[r] = [state |-> "resolved", value |-> "undefined"]
      /\ Never(r, "send")
      /\ NoWrite(r)

C7_Witness ==
  \E r \in Slots : Failed(r, "close") /\ Returned(r)

\* C8: a run whose capture succeeded and whose close failed still hands the
\* attachment built from the captured file to the mail client.
C8_TeardownKeepsArtifact ==
  \A r \in Slots :
    Returned(r) /\ Failed(r, "close") =>
      \E i \in Calls(r, "send") :
        events[r][i].arg =
          createReportAttachment(local[r].filename, local[r].file, action[r].type)

\* C9: once email.send has failed the run has returned and has attempted
\* neither history write, for stateless and non-stateless actions alike.
C9_MailFailureSkipsHistory ==
  \A r \in Slots :
    Failed(r, "send") =>
      /\ Returned(r)
      /\ NoWrite(r)

C9_Witness ==
  \E r, q \in Slots :
    /\ Failed(r, "send") /\ ~action[r].stateless
    /\ Failed(q, "send") /\ action[q].stateless

\* C10: a failed primary write is followed by exactly one fallback write,
\* issued after the primary write has settled, whose record carries the
\* serialized error and the title and actionType of the run; a failed
\* fallback write ends the run with the error logged and no further write.
C10_FallbackAfterPrimaryFailure ==
  \A r \in Slots :
    /\ AtMostOnce(r, "primary")
    /\ Failed(r, "primary") =>
         /\ Once(r, "fallback")
         /\ \A i \in Calls(r, "primary"), j \in Calls(r, "fallback") :
              /\ i < j
              /\ events[r][j].arg[1].title = action[r].title
              /\ events[r][j].arg[1].actionType = action[r].actionName
              /\ events[r][j].arg[1].message = SerializeError(local[r].err)
    /\ ~Never(r, "fallback") =>
         \A i \in Calls(r, "primary") : events[r][i].st = "failed"
    /\ Failed(r, "fallback") =>
         /\ Returned(r) /\ outcome[r].state = "resolved"
         /\ Once(r, "primary") /\ Once(r, "fallback")
         /\ logs[r] # <<>> /\ logs[r][Len(logs[r])].level = "error"

C10_Witness ==
  \E r \in Slots :
    /\ Failed(r, "primary") /\ Failed(r, "fallback") /\ Returned(r)
    /\ local[r].err.isObject

\* C11: a run that captured and mailed successfully makes, when its action is
\* stateless, no history write and resolves with the stateless message; when
\* its action is not stateless and the primary write succeeds, it has made
\* that one write and no fallback write and resolves with the write's result.
C11_StatelessSkipsHistory ==
  \A r \in Slots :
    Returned(r) /\ Succeeded(r, "send") =>
      /\ action[r].stateless =>
           /\ NoWrite(r)
           /\ outcome[r] = [state |-> "resolved",
                value |-> "stateless report does not save data to Elasticsearch"]
      /\ ~action[r].stateless /\ ~Failed(r, "primary") =>
           /\ Once(r, "primary") /\ Succeeded(r, "primary")
           /\ Never(r, "fallback")
           /\ outcome[r] = [state |-> "resolved", value |-> "history id"]

C11_Witness ==
  \E r, q \in Slots :
    /\ Returned(r) /\ Succeeded(r, "send") /\ action[r].stateless
    /\ Returned(q) /\ Succeeded(q, "primary")

\* the calls an Authenticator strategy makes on the page
AuthenticatorOps == {"type", "click", "setExtraHTTPHeaders"}

\* C12: with authentication.enabled false, whatever the mode flags, a run
\* makes no call of an Authenticator strategy; a successful navigation is
\* followed by the wait, the capture starts only once that wait is over, and
\* the wait is for the timeout the configuration holds when openPage reads it.
C12_NoAuthWhenDisabled ==
  /\ [](~config.authentication.enabled =>
          \A r \in Slots :
            /\ \A op \in AuthenticatorOps : Never(r, op)
            /\ \A i \in DOMAIN events[r] :
                 /\ events[r][i].op = "goto" /\ events[r][i].st = "ok" =>
                      i < Len(events[r]) /\ events[r][i + 1].op = "delay"
                 /\ events[r][i].op \in {"setViewport", "pdf"} =>
                      /\ i > 1
                      /\ events[r][i - 1].op = "delay"
                      /\ events[r][i - 1].st = "ok")
  /\ [][\A r \in Slots :
          ~config.authentication.enabled /\ pc[r] = "goto" /\ pc'[r] # "goto" =>
            \/ events'[r][Len(events'[r])].st = "failed"
            \/ /\ pc'[r] = "settle"
               /\ events'[r][Len(events'[r])] = Call("delay", <<config.timeout>>)]_vars

C12_Witness ==
  \E r \in Slots :
    /\ ~config.authentication.enabled /\ config.authentication.mode.basic
    /\ Succeeded(r, "goto") /\ Succeeded(r, "delay") /\ ~Never(r, "setViewport")

\* C13: with authentication enabled in basic mode, a run whose page was
\* opened sets the Authorization header, and once that has succeeded it calls
\* page.goto, the header call coming first.
C13_BasicHeaderBeforeNavigation ==
  \A r \in Slots :
    /\ config.authentication.enabled /\ config.authentication.mode.basic
    /\ Returned(r) /\ Succeeded(r, "newPage")
    => /\ ~Never(r, "setExtraHTTPHeaders")
       /\ Succeeded(r, "setExtraHTTPHeaders") => ~Never(r, "goto")
       /\ \A i, j \in DOMAIN events[r] :
            events[r][i].op = "setExtraHTTPHeaders" /\ events[r][j].op = "goto" => i < j

\* ------------------------------------------- the config overlay on its own

SelectorFields ==
  {"username_input_selector", "password_input_selector", "login_btn_selector"}

\* the custom selectors the settings may hold before a call
CustomSet ==
  [username_input_selector : {"#user", "#u0"},
   password_input_selector : {"#pass", "#p0"},
   login_btn_selector : {".btn-lg", "#b0"}]

\* actions that supply any subset of the three custom selectors
OverlayActionSet ==
  { Action("ok", "http://x", "png", FALSE,
           [ParamsFull EXCEPT !.username_input_selector = u,
                              !.password_input_selector = p,
                              !.login_btn_selector = b],
           Res800x600, "watcherA", "reportA") :
      u \in {"", "#login-user"}, p \in {"", "#login-pass"}, b \in {"", "#login-go"} }

InitOverlay ==
  /\ \E m \in { x \in ModeSet : x.custom \/ x.xpack }, c \in CustomSet :
       config = [BaseConfig(TRUE, TRUE, m) EXCEPT !.authentication.custom = c]
  /\ \E a \in OverlayActionSet :
       action = [r \in Slots |-> IF r = 1 THEN a ELSE NoAction]
  /\ started = 0
  /\ pc = [r \in Slots |-> "idle"]
  /\ local = [r \in Slots |-> InitLocal]
  /\ events = [r \in Slots |-> <<>>]
  /\ logs = [r \in Slots |-> <<>>]
  /\ outcome = [r \in Slots |-> [state |-> "pending", value |-> "undefined"]]

\* lines 214-226 applied to the settings object
ApplyOverlay ==
  /\ pc[1] = "idle"
  /\ config' = Overlay(getConfiguration, action[1])
  /\ pc' = [pc EXCEPT ![1] = "done"]
  /\ UNCHANGED <<started, action, local, events, logs, outcome>>

SpecOverlay == InitOverlay /\ [][ApplyOverlay]_vars

\* C14: in custom mode each of the three custom selectors of the merged
\* settings is the action's value when the action supplies one, and the
\* value the settings held before otherwise, independently of the other two.
C14_SelectorsOverlaidIndependently ==
  [][config.authentication.mode.custom =>
       \A f \in SelectorFields :
         config'.authentication.custom[f] =
           IF action[1].params[f] # "" THEN action[1].params[f]
           ELSE config.authentication.custom[f]]_vars

\* only the login button overridden: the other two selectors are kept
C14_Witness ==
  /\ pc[1] = "done" /\ config.authentication.mode.custom
  /\ action[1].params.username_input_selector = ""
  /\ action[1].params.password_input_selector = ""
  /\ action[1].params.login_btn_selector = "#login-go"
  /\ config.authentication.custom =
       [username_input_selector |-> "#u0", password_input_selector |-> "#p0",
        login_btn_selector |-> "#login-go"]

\* C15: in custom mode the login types into and clicks the custom selectors
\* of the merged settings.  Stated while a single call has been made, when
\* the settings object holds exactly that run's merged values.
C15_CustomLoginUsesMergedSelectors ==
  config.authentication.mode.custom /\ started = 1 =>
    \A r \in Slots : \A i \in DOMAIN events[r] :
      LET e == events[r][i]
          c == config.authentication.custom
      IN  /\ e.op = "type" /\ e.arg[2] = config.authentication.username =>
               e.arg[1] = c.username_input_selector
          /\ e.op = "type" /\ e.arg[2] = config.authentication.password =>
               e.arg[1] = c.password_input_selector
          /\ e.op = "click" => e.arg[1] = c.login_btn_selector

\* ------------------------------------ createReportAttachment on its own

ByteSet == {0, 77, 255}

\* the byte strings of at most n bytes
RECURSIVE BytesUpTo(_)
BytesUpTo(n) ==
  IF n = 0 THEN { <<>> }
  ELSE BytesUpTo(n - 1) \cup
       { Append(s, b) : s \in { t \in BytesUpTo(n - 1) : Len(t) = n - 1 }, b \in ByteSet }

InitAttachment ==
  /\ \E active \in BOOLEAN : config = BaseConfig(active, FALSE, CHOOSE m \in ModeSet : m.basic)
  /\ \E t \in {"png", "jpeg", "pdf"}, n \in {"nightly", "weekly"}, f \in BytesUpTo(MaxFileLen) :
       /\ action = [r \in Slots |->
            Action("ok", "http://x", IF r = 1 THEN t ELSE "png", FALSE,
                   ParamsFull, Res800x600, "watcherA", "reportA")]
       /\ local = [r \in Slots |->
            IF r = 1 THEN [InitLocal EXCEPT !.filename = createReportFileName(n, t),
                                            !.file = f]
            ELSE InitLocal]
  /\ started = 0
  /\ pc = [r \in Slots |-> "idle"]
  /\ events = [r \in Slots |-> <<>>]
  /\ logs = [r \in Slots |-> <<>>]
  /\ outcome = [r \in Slots |-> [state |-> "pending", value |-> "undefined"]]

\* lines 242-243: the attachment is built and handed to email.send
BuildAttachment ==
  /\ pc[1] = "idle"
  /\ events' = [events EXCEPT ![1] =
       << Call("send", createReportAttachment(
                          local[1].filename, local[1].file, action[1].type)) >>]
  /\ pc' = [pc EXCEPT ![1] = "send"]
  /\ UNCHANGED <<config, started, action, local, logs, outcome>>

SpecAttachment == InitAttachment /\ [][BuildAttachment]_vars

\* the sextet a character of the base64 alphabet stands for
Base64Index(c) == CHOOSE i \in 0..63 : Base64Alphabet[i + 1] = c

\* a standard base64 decoder: four characters to three bytes, "=" padding
RECURSIVE Base64Decode(_)
Base64Decode(cs) ==
  IF Len(cs) < 4 THEN <<>>
  ELSE
    LET a == Base64Index(cs[1])
        b == Base64Index(cs[2])
        b1 == a * 4 + b \div 16
    IN  IF cs[3] = "=" THEN << b1 >>
        ELSE
          LET c == Base64Index(cs[3])
              b2 == (b % 16) * 16 + c \div 4
          IN  IF cs[4] = "=" THEN << b1, b2 >>
              ELSE << b1, b2, (c % 4) * 64 + Base64Index(cs[4]) >>
                   \o Base64Decode(SubSeq(cs, 5, Len(cs)))

\* C16: the attachment is the inline alternative part followed by the binary
\* part; the mime type and the inline text follow the snapshot type, the
\* binary part carries the Content-ID and the filename, and its data decodes
\* from base64 to exactly the captured bytes.
C16_AttachmentParts ==
  pc[1] = "send" =>
    LET att == events[1][1].arg
        isPdf == action[1].type = "pdf"
    IN  /\ Len(att) = 2
        /\ att[1].alternative
        /\ att[1].data = IF isPdf
             THEN "<html><p>Find PDF report in the attachment.</p></html>"
             ELSE "<html><img src='cid:my-report' width='100%'></html>"
        /\ att[2].type = IF isPdf THEN "application/pdf" ELSE "image/" \o action[1].type
        /\ att[2].contentId = "<my-report>"
        /\ att[2].name = local[1].filename
        /\ att[2].encoded
        /\ Len(att[2].data) = 4 * ((Len(local[1].file) + 2) \div 3)
        /\ Base64Decode(att[2].data) = local[1].file

C16_Witness ==
  /\ pc[1] = "send" /\ action[1].type = "pdf"
  /\ local[1].file = <<255, 77>>
  /\ events[1][1].arg[2].data = <<"/", "0", "0", "=">>

\* ------------------------------------------------ order of a run's events

\* the place of a collaborator call in the sequence open, capture, close,
\* mail send, primary write (the fallback write comes after them)
Rank(op) ==
  CASE op \in {"launch", "newPage", "goto", "delay", "type", "click"} -> 1
    [] op \in {"setViewport", "screenshot", "pdf"} -> 2
    [] op = "close" -> 3
    [] op = "send" -> 4
    [] op = "primary" -> 5
    [] OTHER -> 6

\* open returned successfully: every call it awaited succeeded
OpenReturned(r) ==
  /\ Succeeded(r, "goto")
  /\ \A i \in DOMAIN events[r] : Rank(events[r][i].op) = 1 => events[r][i].st = "ok"

CapturedOnce(r) ==
  /\ \E i \in DOMAIN events[r] : events[r][i].op \in {"screenshot", "pdf"}
  /\ \A i \in DOMAIN events[r] :
       events[r][i].op \in {"screenshot", "pdf"} =>
         \A j \in DOMAIN events[r] : events[r][j].op \in {"screenshot", "pdf"} => i = j

WholeSequence(r) ==
  /\ Once(r, "launch") /\ Once(r, "goto") /\ CapturedOnce(r)
  /\ Once(r, "close") /\ Once(r, "send") /\ Once(r, "primary")

\* no call the run made has failed
AllHealthy(r) == \A i \in DOMAIN events[r] : events[r][i].st # "failed"

\* a run that has finished inside the try block with authentication off
FinishedPlain(r) ==
  /\ Returned(r) /\ outcome[r].state = "resolved"
  /\ ~config.authentication.enabled
  /\ AllHealthy(r)

RequestedViewport(r) ==
  << ToNumber(At(Split(action[r].res, "x"), 0)),
     ToNumber(At(Split(action[r].res, "x"), 1)) >>

CaptureFailed(r) ==
  Failed(r, "setViewport") \/ Failed(r, "screenshot") \/ Failed(r, "pdf")

GotoIndex(r) ==
  IF Never(r, "goto") THEN 0
  ELSE CHOOSE i \in DOMAIN events[r] : events[r][i].op = "goto"

\* the calls openPage made after page.goto returned
LoginEvents(r) ==
  IF GotoIndex(r) = 0 THEN <<>>
  ELSE SelectSeq(SubSeq(events[r], GotoIndex(r) + 1, Len(events[r])),
                 LAMBDA e : Rank(e.op) = 1)

\* the timeouts a run can be given
TimeoutSet ==
  {DefaultTimeout} \cup ({ a.params.delay : a \in ActionSet } \ {0})

\* the six steps of the dashboard-form login for a backend variant
LoginSteps(variant, user, pass, timeout) ==
  << [op |-> "type", arg |-> <<"#username", user, timeout \div 50>>],
     [op |-> "type", arg |-> <<"#password", pass, timeout \div 50>>],
     [op |-> "click", arg |-> << IF variant = "xpack" THEN ".kuiButton" ELSE ".btn-login" >>],
     [op |-> "delay", arg |-> <<timeout>>],
     [op |-> "click", arg |-> <<".global-nav-link--close">>],
     [op |-> "delay", arg |-> <<timeout \div 5>>] >>

\* es is a prefix of the steps of one login, in order, every step before the
\* last one successful
LoginPrefix(es, variant) ==
  /\ Len(es) <= 6
  /\ es # <<>> =>
       \E t \in TimeoutSet :
         LET steps == LoginSteps(variant, es[1].arg[2],
                        IF Len(es) > 1 THEN es[2].arg[2] ELSE "", t)
         IN  \A i \in DOMAIN es :
               /\ es[i].op = steps[i].op
               /\ i # 2 => es[i].arg = steps[i].arg
               /\ i = 2 => es[i].arg[1] = steps[i].arg[1] /\ es[i].arg[3] = steps[i].arg[3]
               /\ i < Len(es) => es[i].st = "ok"

\* C19: with the searchguard or the xpack flag set, the calls after the
\* navigation are the login steps in their fixed order with the submit
\* control of the variant; a step that fails is the last call of the run,
\* which ends with the authentication error; no login call is made before
\* page.goto has succeeded, and a run under another flag makes none of the
\* dashboard-form calls.
C19_KibanaLoginOrder ==
  \A r \in Slots :
    LET es == LoginEvents(r)
        mode == config.authentication.mode
        kibana == config.authentication.enabled /\ (mode.searchguard \/ mode.xpack)
    IN  /\ kibana => LoginPrefix(es, IF mode.xpack THEN "xpack" ELSE "searchguard")
        /\ kibana /\ (\E i \in DOMAIN events[r] : Rank(events[r][i].op) > 1) =>
             Len(es) = 6 /\ es[6].st = "ok"
        /\ \A i \in DOMAIN events[r] :
             events[r][i].op \in {"type", "click"} =>
               /\ GotoIndex(r) # 0 /\ GotoIndex(r) < i
               /\ events[r][GotoIndex(r)].st = "ok"
               /\ events[r][i].st = "failed" =>
                    /\ i = Len(events[r])
                    /\ Returned(r) /\ outcome[r].state = "resolved"
                    /\ logs[r][Len(logs[r])] =
                         [level |-> "error",
                          msg |-> IF mode.custom THEN "fail to authenticate via custom auth"
                                  ELSE "fail to authenticate via Search Guard"]
        /\ ~kibana =>
             \A i \in DOMAIN events[r] :
               events[r][i].op \in {"type", "click"} =>
                 events[r][i].arg[1] \notin
                   {"#username", "#password", ".kuiButton", ".btn-login", ".global-nav-link--close"}

C19_Witness ==
  \E r \in Slots :
    /\ config.authentication.enabled /\ config.authentication.mode.xpack
    /\ Len(LoginEvents(r)) = 6
    /\ LoginEvents(r)[3].arg = <<".kuiButton">>
    /\ Succeeded(r, "close")

\* ---------------------------------------------------------------- empty url

\* C20: a call whose action has an empty url is not stopped: it logs the
\* missing-url message at info level, overlays the settings with the action's
\* overrides, launches the browser and navigates to the empty url.
C20_EmptyUrlProceeds ==
  \A r \in Slots :
    pc[r] # "idle" /\ config.active /\ action[r].shape = "ok" /\ action[r].url = "" =>
      /\ logs[r] # <<>>
      /\ logs[r][1] = [level |-> "info", msg |-> "Report Disabled: No URL Settings!"]
      /\ \A i \in DOMAIN logs[r] : i > 1 => logs[r][i].level = "error"
      /\ outcome[r].state # "rejected"
      /\ events[r] # <<>> /\ events[r][1].op = "launch"
      /\ \A i \in DOMAIN events[r] : events[r][i].op = "goto" => events[r][i].arg = <<"">>
      /\ Succeeded(r, "newPage") /\ ~BasicAuthConfigured(config) => ~Never(r, "goto")
      /\ started = 1 => config = Overlay(StartupConfig, action[r])

C20_Witness ==
  \E r \in Slots :
    /\ action[r].url = "" /\ pc[r] = "done"
    /\ Len(logs[r]) = 1 /\ logs[r][1].level = "info"
    /\ Succeeded(r, "goto") /\ Succeeded(r, "send")
    /\ config.timeout = DefaultTimeout

====
